---- MODULE Spec2Model ----
(***************************************************************************)
(* Model of the oslo.messaging instrumentation                             *)
(* (opentelemetry/instrumentation/oslomessaging/__init__.py).              *)
(*                                                                         *)
(* The two wrappers installed by OsloMessagingInstrumentor are modelled as *)
(* activations (frames) on workers.  A worker is one logical thread of     *)
(* control (thread, greenthread or task); the OpenTelemetry runtime        *)
(* context is a context variable, so every worker has its own current      *)
(* context.  The tracer is a recording tracer: start_as_current_span       *)
(* starts a span whose parent is taken from the given context (or the      *)
(* current one when none is given), makes it current, and on exit records  *)
(* an escaping Exception, sets status ERROR, restores the previous context *)
(* and ends the span.  The propagator is the W3C trace-context one:        *)
(* inject writes a traceparent entry, extract parses it.                   *)
(*                                                                         *)
(* Spec and SpecConc start with the wrappers installed and exercise them:  *)
(* Spec on one worker over all the inputs, SpecConc on two workers.        *)
(* SpecInstall starts from the unpatched classes and interleaves           *)
(* instrument() and uninstrument() with invocations of the class           *)
(* attributes, which run the wrapper or the original as installed.         *)
(* unwrap and the guard of BaseInstrumentor are not part of the sources    *)
(* modelled here; Unwrap, RunsInstrument and RunsUninstrument follow the   *)
(* documented contract of the instrumentation.                             *)
(***************************************************************************)
EXTENDS Integers, Sequences, FiniteSets, TLC

VARIABLES
    stack,    \* worker -> sequence of wrapper activations, innermost last
    active,   \* worker -> span context current on that worker
    net,      \* messages handed to the transport and not yet dispatched
    nextId,   \* next span id the tracer hands out
    ninv,     \* number of wrapper invocations begun so far
    last,     \* the activation that exited in the latest step, if one did
    attrs,    \* the patched attributes of _BaseCallContext and RPCServer
    instrumented,   \* the instrumentor's "is instrumented" flag
    importable,     \* whether the oslo_messaging modules can be imported
    lastCall  \* the latest instrument()/uninstrument() call and its result

ivars == <<attrs, instrumented, importable, lastCall>>
vars == <<stack, active, net, nextId, ninv, last,
          attrs, instrumented, importable, lastCall>>

Workers == {"w1", "w2"}

\* Number of wrapper invocations explored in one run.
MaxInv == 2

-----------------------------------------------------------------------------
(* Values *)

\* A span context (trace id, span id); the invalid one stands for "no span".
NoCtx == [tid |-> 0, sid |-> 0]
IsValid(sc) == sc.tid # 0 /\ sc.sid # 0

\* A span started by application code before the bridge is entered.
AppCtx == [tid |-> 90, sid |-> 90]
\* The span context of an upstream caller instrumented elsewhere.
RemoteCtx == [tid |-> 70, sid |-> 71]

\* The value stored under the reserved key "_trace_context" of a dict:
\* absent, a mapping (with its traceparent entry, <<>> when it has none),
\* or something that is not a mapping (a string, None, a number).
NoKey == [kind |-> "absent", tp |-> <<>>]
CarrierMap(tp) == [kind |-> "map", tp |-> tp]
NonMapping == [kind |-> "nonmap", tp |-> <<>>]

\* A dict with the application key "user" and the reserved key.
Dict(u, tc) == [user |-> u, tc |-> tc]
EmptyDict == Dict("absent", NoKey)

\* A call-context object as Python sees it.
\*   none          None
\*   dict          a plain dict
\*   todict        an object with to_dict() (oslo_context RequestContext)
\*   todict_raises an object whose to_dict() raises
\*   badget        an object with get() that dict() cannot convert
\*   scalar        a truthy object with neither (an int), dict() raises
CtxtObj(t, d) == [type |-> t, d |-> d]
NoneCtxt == CtxtObj("none", EmptyDict)

\* Outcome of a call: nothing yet, a returned value or a raised error.
NoOutcome == [kind |-> "none", val |-> "none"]
Ret(v) == [kind |-> "ret", val |-> v]
Raise(e) == [kind |-> "raise", val |-> e]

\* Errors that derive from Exception, and those that derive from
\* BaseException only (cancellation).
ExceptionErrors == {"TimeoutError", "TypeError", "ToDictError", "AttributeError"}
BaseOnlyErrors == {"CancelledError"}
IsException(e) == e \in ExceptionErrors

-----------------------------------------------------------------------------
(* Spans and the tracer *)

NoAttrs == [method |-> "unset", system |-> "unset", service |-> "unset"]

NoSpan ==
    [sid |-> 0, tid |-> 0, parent |-> NoCtx, kind |-> "none", name |-> <<>>,
     attrs |-> NoAttrs, status |-> "UNSET", events |-> <<>>, ends |-> 0]

SpanCtxOf(span) == [tid |-> span.tid, sid |-> span.sid]

\* The context argument of start_as_current_span: not given (None), or a
\* Context object holding a span context (the invalid one when it is empty).
NoContextArg == [given |-> FALSE, span |-> NoCtx]
ContextArg(sc) == [given |-> TRUE, span |-> sc]

\* tracer.start_span: the parent is read from the context argument, or
\* from the worker's current context when the argument is None; a span
\* without a valid parent opens a new trace.
StartSpan(id, name, kind, ctxArg, current) ==
    LET p == IF ctxArg.given THEN ctxArg.span ELSE current
    IN  [sid |-> id, tid |-> IF IsValid(p) THEN p.tid ELSE id,
         parent |-> IF IsValid(p) THEN p ELSE NoCtx,
         kind |-> kind, name |-> name, attrs |-> NoAttrs,
         status |-> "UNSET", events |-> <<>>, ends |-> 0]

SetAttribute(span, key, value) == [span EXCEPT !.attrs[key] = value]
RecordException(span, e) == [span EXCEPT !.events = Append(@, e)]
SetStatusError(span) == [span EXCEPT !.status = "ERROR"]
EndSpan(span) == [span EXCEPT !.ends = @ + 1]

\* The span started without the "with" block: nothing finishes it.
WithExitUnscoped(span, outcome) == span

\* Leaving the "with tracer.start_as_current_span(...)" block with the
\* outcome of its body: an escaping Exception is recorded and sets status
\* ERROR, then the span is ended.
WithExit(span, outcome) ==
    IF outcome.kind = "raise" /\ IsException(outcome.val)
    THEN EndSpan(SetStatusError(RecordException(span, outcome.val)))
    ELSE EndSpan(span)

\* The span left current when the block is left.
DetachSkipped(f) == SpanCtxOf(f.span)

\* The context made current again when the "with" block is left: the one
\* the token taken at entry stands for.
Detach(f) == f.token

\* The current context kept in one slot shared by all the workers.
CurrentContextShared(w) == active["w1"]

\* The worker's current context, as get_current() reads it.
CurrentContext(w) == active[w]

-----------------------------------------------------------------------------
(* The propagator *)

\* inject(carrier): a traceparent entry <<version, trace id, span id, flags>>
\* for a valid current span, nothing otherwise.
Inject(current) ==
    IF IsValid(current)
    THEN CarrierMap(<<0, current.tid, current.sid, 1>>)
    ELSE CarrierMap(<<>>)

\* extract(carrier): reading a carrier that is not a mapping raises; a
\* missing or malformed traceparent yields an empty context.
ExtractRaises(carrier) == carrier.kind # "map"
Extract(carrier) ==
    LET tp == carrier.tp
    IN  IF Len(tp) = 4 /\ tp[1] = 0 /\ tp[2] # 0 /\ tp[3] # 0
        THEN ContextArg([tid |-> tp[2], sid |-> tp[3]])
        ELSE ContextArg(NoCtx)

-----------------------------------------------------------------------------
(* Call contexts *)

Truthy(c) ==
    CASE c.type = "none" -> FALSE
      [] c.type = "dict" -> c.d # EmptyDict
      [] OTHER -> TRUE

HasToDict(c) == c.type \in {"todict", "todict_raises"}
HasGet(c) == c.type \in {"dict", "badget"}

\* Result of a conversion to a dict: the dict, "no dict" (None), or an error.
Converted(d) == [ok |-> TRUE, some |-> TRUE, d |-> d, err |-> "none"]
ConvertedNone == [ok |-> TRUE, some |-> FALSE, d |-> EmptyDict, err |-> "none"]
ConvertFails(e) == [ok |-> FALSE, some |-> FALSE, d |-> EmptyDict, err |-> e]

\* ctxt.to_dict()
ToDict(c) == IF c.type = "todict" THEN Converted(c.d) ELSE ConvertFails("ToDictError")

\* dict(ctxt)
DictOf(c) ==
    CASE c.type = "dict" -> Converted(c.d)
      [] c.type = "none" -> ConvertFails("TypeError")
      [] OTHER -> ConvertFails("TypeError")

-----------------------------------------------------------------------------
(* Client wrapper, _wrap_client_method.wrapper and _inject_trace_context *)

ClientOps == {"cast", "call"}

ClientSpanName(op) == <<"oslo_messaging.rpc", op>>

\* rpc.method set from the name of the wrapped operation.
ClientSetAttributesOpName(span, method) ==
    SetAttribute(SetAttribute(SetAttribute(span, "method", span.name[2]),
                              "system", "oslo_messaging"),
                 "service", "target")

ClientSetAttributes(span, method) ==
    SetAttribute(SetAttribute(SetAttribute(span, "method", method),
                              "system", "oslo_messaging"),
                 "service", "target")

\* if not ctxt: ctxt = {}
DefaultCtxt(c) == IF Truthy(c) THEN c ELSE CtxtObj("dict", EmptyDict)

\* _inject_trace_context(ctxt)
InjectTraceContext(c, current) ==
    LET carrier == Inject(current)
        conv == IF HasToDict(c) THEN ToDict(c)
                ELSE DictOf(IF Truthy(c) THEN c ELSE CtxtObj("dict", EmptyDict))
    IN  IF conv.ok THEN Converted([conv.d EXCEPT !.tc = carrier]) ELSE conv

\* The return value of the helper dropped: the original method gets the
\* caller's own mapping.
DownstreamOriginal(c, conv) == c.d

\* ctxt = self._inject_trace_context(ctxt): the call context handed to the
\* original method is the dict the helper returned.
Downstream(c, conv) == conv.d

\* ctxt = self._inject_trace_context(ctxt): the helper is looked up on the
\* class when the wrapper runs; without it the lookup raises.
CallHelper(present, c, current) ==
    IF present THEN InjectTraceContext(c, current)
    ELSE ConvertFails("AttributeError")

\* The reserved key stored into the caller's own object instead of a copy.
CallerCtxtAfterInPlace(c, carrier) ==
    IF c.type \in {"dict", "todict"} THEN [c EXCEPT !.d.tc = carrier] ELSE c

\* The caller's context object once the helper has run: to_dict() and
\* dict() build a new dict and the key is stored into that one, so the
\* object the caller holds is as it was.
CallerCtxtAfter(c, carrier) == c

\* except Exception as e: record_exception, set_status(ERROR), raise
ClientExcept(span, outcome) ==
    IF outcome.kind = "raise" /\ IsException(outcome.val)
    THEN SetStatusError(RecordException(span, outcome.val))
    ELSE span

\* The failure wrapped in another error instead of the bare "raise".
ClientResultWrapped(outcome) ==
    IF outcome.kind = "raise" THEN Raise("RuntimeError") ELSE outcome

\* What the wrapper hands back for the outcome of the wrapped operation:
\* "return result", or the bare "raise" of the except block.
ClientResult(outcome) == outcome


-----------------------------------------------------------------------------
(* Activations *)

\* An inbound message object: its shape ("full" exposes both ctxt and
\* message, "bare" does not), its context, the method entry of its body
\* ("absent" when the body has none) and, for a message sent through the
\* client wrapper, the span context that was current when it was injected
\* (origin) and the span of the invocation that sent it (sender).
Incoming(shape, c, m, origin, sender) ==
    [shape |-> shape, ctxt |-> c, method |-> m, origin |-> origin,
     sender |-> sender]
NoIncoming == Incoming("none", NoneCtxt, "absent", NoCtx, NoCtx)

\* One activation of a wrapper.
\*   pc      "entered" (client: span started, context not yet injected),
\*           "calling" (inside the wrapped operation), "done" (exited)
\*   ctxt    the call context the caller supplied (client)
\*   inc     the incoming message (server)
\*   token   the context that was current before the span was attached
\*   down    the call context handed to the wrapped operation (client)
\*   passed  the message handed to the handler (server)
\*   started how many spans this activation started
\*   calls   how many times the wrapped operation was invoked
\*   ops     how many tracer, span and propagator operations were performed
\*   injected the span context that was current when inject ran (client)
\*   after   the caller's context object after the helper has run (client)
\*   layers  the wrappers around the attribute when it was invoked
\*   api     the latest instrument()/uninstrument() call at that time
\*   inner   the outcome of the wrapped operation
\*   res     the outcome of the wrapper
Frame(w, side, op, c, m, inc) ==
    [worker |-> w, side |-> side, op |-> op, pc |-> "entered", ctxt |-> c, method |-> m,
     inc |-> inc, span |-> NoSpan, token |-> NoCtx, down |-> EmptyDict,
     passed |-> NoIncoming, started |-> 0, calls |-> 0, ops |-> 0,
     injected |-> NoCtx, after |-> c, layers |-> 0,
     api |-> [op |-> "none", res |-> "ok", ran |-> FALSE],
     inner |-> NoOutcome, res |-> NoOutcome]

NoFrame == Frame("none", "none", "none", NoneCtxt, "none", NoIncoming)

Top(w) == stack[w][Len(stack[w])]
Pop(w) == SubSeq(stack[w], 1, Len(stack[w]) - 1)

\* A wrapper can be entered on an idle worker, or from inside the wrapped
\* operation of the activation that is running there.
CanEnter(w) ==
    /\ ninv < MaxInv
    /\ IF stack[w] = <<>> THEN TRUE ELSE Top(w).pc = "calling"

-----------------------------------------------------------------------------
(* Server wrapper, _wrap_server_process_incoming.wrapper *)

\* hasattr(incoming, "ctxt") and hasattr(incoming, "message")
HasCtxtAttr(inc) == inc.shape \in {"full", "no_message"}
HasMessageAttr(inc) == inc.shape \in {"full", "no_ctxt"}
\* The shape test with "or" in place of "and".
RecognizedEither(inc) == HasCtxtAttr(inc) \/ HasMessageAttr(inc)

Recognized(inc) == HasCtxtAttr(inc) /\ HasMessageAttr(inc)

\* The three conversion branches; only the last one catches the failure
\* of dict().
ServerNormalize(c) ==
    IF HasToDict(c) THEN ToDict(c)
    ELSE IF HasGet(c) THEN DictOf(c)
    ELSE IF c.type # "none"
         THEN IF DictOf(c).ok THEN DictOf(c) ELSE ConvertedNone
         ELSE ConvertedNone

\* if ctxt_dict and "_trace_context" in ctxt_dict
HasCarrier(conv) == conv.some /\ conv.d # EmptyDict /\ conv.d.tc.kind # "absent"

\* ctx = None, replaced by extract(carrier) when there is a carrier.
ServerContext(conv) ==
    IF HasCarrier(conv) THEN Extract(conv.d.tc) ELSE NoContextArg

\* incoming.message.get("method", "unknown")
ServerMethod(inc) == IF inc.method = "absent" THEN "unknown" ELSE inc.method

ServerSpanName(m) == <<"oslo_messaging.rpc.server", m>>

ServerSetAttributes(span, method) ==
    SetAttribute(SetAttribute(SetAttribute(span, "method", method),
                              "system", "oslo_messaging"),
                 "service", "None")

\* except Exception as e: record_exception, set_status(ERROR), raise
ServerExcept(span, outcome) ==
    IF outcome.kind = "raise" /\ IsException(outcome.val)
    THEN SetStatusError(RecordException(span, outcome.val))
    ELSE span

\* What the wrapper hands back for the outcome of the handler.
ServerResult(outcome) == outcome

-----------------------------------------------------------------------------
(* Inputs *)

Methods == {"get_status", "ping"}

\* The client calls explored: (wrapped operation, method name).
ClientCalls == {<<"call", "get_status">>, <<"cast", "ping">>}
Results == {"OK"}
WrappedErrors == {"TimeoutError", "CancelledError"}
Outcomes == {Ret(r) : r \in Results} \cup {Raise(e) : e \in WrappedErrors}

UserDict == Dict("alice", NoKey)

ClientCtxts ==
    { NoneCtxt,
      CtxtObj("dict", EmptyDict),
      CtxtObj("dict", UserDict),
      CtxtObj("todict", UserDict),
      CtxtObj("todict_raises", EmptyDict),
      CtxtObj("scalar", EmptyDict) }

RemoteCarrier == CarrierMap(<<0, RemoteCtx.tid, RemoteCtx.sid, 1>>)

\* Messages that do not come from the client wrapper of this model.
ForeignIncoming ==
    { Incoming("no_ctxt", NoneCtxt, "get_status", NoCtx, NoCtx),
      Incoming("no_message", CtxtObj("dict", UserDict), "absent", NoCtx, NoCtx),
      Incoming("full", NoneCtxt, "get_status", NoCtx, NoCtx),
      Incoming("full", CtxtObj("dict", EmptyDict), "absent", NoCtx, NoCtx),
      Incoming("full", CtxtObj("dict", UserDict), "ping", NoCtx, NoCtx),
      Incoming("full", CtxtObj("dict", Dict("alice", RemoteCarrier)), "get_status", NoCtx, NoCtx),
      Incoming("full", CtxtObj("dict", Dict("absent", CarrierMap(<<>>))), "ping", NoCtx, NoCtx),
      Incoming("full", CtxtObj("dict", Dict("absent", CarrierMap(<<255>>))), "ping", NoCtx, NoCtx),
      Incoming("full", CtxtObj("dict", Dict("absent", NonMapping)), "get_status", NoCtx, NoCtx),
      Incoming("full", CtxtObj("todict", UserDict), "get_status", NoCtx, NoCtx),
      Incoming("full", CtxtObj("todict_raises", EmptyDict), "get_status", NoCtx, NoCtx),
      Incoming("full", CtxtObj("badget", EmptyDict), "ping", NoCtx, NoCtx),
      Incoming("full", CtxtObj("scalar", EmptyDict), "absent", NoCtx, NoCtx) }

-----------------------------------------------------------------------------
(* Client actions *)

\* wrapper entry: start_as_current_span and the three set_attribute calls.
ClientEnter(w, op, c, m) ==
    /\ CanEnter(w)
    /\ LET span == ClientSetAttributes(
                       StartSpan(nextId, ClientSpanName(op), "CLIENT",
                                 NoContextArg, CurrentContext(w)), m)
           f == [Frame(w, "client", op, c, m, NoIncoming) EXCEPT
                    !.span = span, !.token = active[w], !.started = 1,
                    !.ops = 4, !.layers = attrs[op], !.api = lastCall]
       IN  /\ stack' = [stack EXCEPT ![w] = Append(@, f)]
           /\ active' = [active EXCEPT ![w] = SpanCtxOf(span)]
    /\ nextId' = nextId + 1
    /\ ninv' = ninv + 1
    /\ last' = NoFrame
    /\ UNCHANGED net

\* The wrapper leaves its "with" block with outcome o of the body: the span
\* is finished, the previous context is restored, the caller gets o.
ClientExit(w, f, inner, o) ==
    /\ stack' = [stack EXCEPT ![w] = Pop(w)]
    /\ active' = [active EXCEPT ![w] = Detach(f)]
    /\ last' = [f EXCEPT !.pc = "done", !.inner = inner, !.res = o,
                          !.span = WithExit(f.span, o),
                          !.ops = @ + (IF o.kind = "raise" /\ IsException(o.val)
                                       THEN 3 ELSE 1)]

\* "if not ctxt", _inject_trace_context, and the call of the original
\* method, which hands the message to the transport.  A failing conversion
\* escapes the wrapper.
ClientInject(w) ==
    /\ stack[w] # <<>>
    /\ Top(w).side = "client" /\ Top(w).pc = "entered"
    /\ LET f == Top(w)
           r == CallHelper(attrs.helper, DefaultCtxt(f.ctxt), CurrentContext(w))
       IN  IF r.ok
           THEN /\ stack' = [stack EXCEPT ![w][Len(stack[w])] =
                                [f EXCEPT !.pc = "calling",
                                          !.down = Downstream(DefaultCtxt(f.ctxt), r),
                                          !.calls = @ + 1, !.ops = @ + 1,
                                          !.injected = CurrentContext(w),
                                          !.after = CallerCtxtAfter(
                                              f.ctxt, Inject(CurrentContext(w)))]]
                /\ net' = net \cup
                      {Incoming("full",
                                CtxtObj("dict", Downstream(DefaultCtxt(f.ctxt), r)),
                                f.method, CurrentContext(w), SpanCtxOf(f.span))}
                /\ last' = NoFrame
                /\ UNCHANGED active
           ELSE /\ ClientExit(w, [f EXCEPT !.ops = @ + 1,
                                           !.injected = CurrentContext(w)],
                              NoOutcome, Raise(r.err))
                /\ UNCHANGED net
    /\ UNCHANGED <<nextId, ninv>>

\* The original method returns or raises.
ClientReturn(w, o) ==
    /\ stack[w] # <<>>
    /\ Top(w).side = "client" /\ Top(w).pc = "calling"
    /\ LET f == Top(w)
           caught == o.kind = "raise" /\ IsException(o.val)
       IN  ClientExit(w, [f EXCEPT !.span = ClientExcept(f.span, o),
                                   !.ops = @ + (IF caught THEN 2 ELSE 0)],
                      o, ClientResult(o))
    /\ UNCHANGED <<net, nextId, ninv>>

-----------------------------------------------------------------------------
(* Server actions *)

\* The incoming message with the reserved key taken out of its context.
ServerPassedStripped(inc) == [inc EXCEPT !.ctxt.d.tc = NoKey]

\* original_method(self, incoming): the handler gets the object the
\* wrapper was given; the conversion above worked on a copy.
ServerPassed(inc) == inc

\* The wrapper raises before the handler is reached.
ServerAbort(f, e) ==
    /\ last' = [f EXCEPT !.pc = "done", !.res = Raise(e)]
    /\ UNCHANGED <<stack, active, nextId>>

\* wrapper entry up to the call of the original _process_incoming.
ServerEnter(w, inc) ==
    /\ CanEnter(w)
    /\ ninv' = ninv + 1
    /\ LET f0 == [Frame(w, "server", "dispatch", inc.ctxt, ServerMethod(inc), inc)
                     EXCEPT !.token = active[w],
                            !.layers = attrs.process_incoming,
                            !.api = lastCall]
           conv == ServerNormalize(inc.ctxt)
       IN  IF ~Recognized(inc)
           THEN /\ stack' = [stack EXCEPT ![w] =
                                Append(@, [f0 EXCEPT !.pc = "calling",
                                                     !.passed = inc, !.calls = 1])]
                /\ last' = NoFrame
                /\ UNCHANGED <<active, nextId>>
           ELSE IF ~conv.ok
           THEN ServerAbort(f0, conv.err)
           ELSE IF HasCarrier(conv) /\ ExtractRaises(conv.d.tc)
           THEN ServerAbort([f0 EXCEPT !.ops = 1], "AttributeError")
           ELSE LET span == ServerSetAttributes(
                                StartSpan(nextId, ServerSpanName(ServerMethod(inc)),
                                          "SERVER", ServerContext(conv),
                                          CurrentContext(w)),
                                ServerMethod(inc))
                    f == [f0 EXCEPT !.pc = "calling", !.span = span,
                                    !.passed = ServerPassed(inc),
                                    !.started = 1, !.calls = 1,
                                    !.ops = 4 + (IF HasCarrier(conv) THEN 1 ELSE 0)]
                IN  /\ stack' = [stack EXCEPT ![w] = Append(@, f)]
                    /\ active' = [active EXCEPT ![w] = SpanCtxOf(span)]
                    /\ nextId' = nextId + 1
                    /\ last' = NoFrame

\* Dispatch of a message sent through the client wrapper.
ServerReceive(w, inc) ==
    /\ inc \in net
    /\ net' = net \ {inc}
    /\ ServerEnter(w, inc)

\* Dispatch of a message from elsewhere.
ServerForeign(w, inc) ==
    /\ ServerEnter(w, inc)
    /\ UNCHANGED net

\* The handler returns or raises.
ServerReturn(w, o) ==
    /\ stack[w] # <<>>
    /\ Top(w).side = "server" /\ Top(w).pc = "calling"
    /\ LET f == Top(w)
           caught == o.kind = "raise" /\ IsException(o.val)
       IN  /\ stack' = [stack EXCEPT ![w] = Pop(w)]
           /\ IF Recognized(f.inc)
              THEN /\ active' = [active EXCEPT ![w] = Detach(f)]
                   /\ last' = [f EXCEPT
                                 !.pc = "done", !.inner = o, !.res = ServerResult(o),
                                 !.span = WithExit(ServerExcept(f.span, o), o),
                                 !.ops = @ + (IF caught THEN 5 ELSE 1)]
              ELSE /\ UNCHANGED active
                   /\ last' = [f EXCEPT !.pc = "done", !.inner = o, !.res = o]
    /\ UNCHANGED <<net, nextId, ninv>>

-----------------------------------------------------------------------------
(* Invocations of the class attributes, wrapped or not *)

\* The original cast/call invoked with no wrapper around it: it hands the
\* caller's message to the transport as it is.
DirectCall(w, op, c, m) ==
    /\ CanEnter(w)
    /\ stack' = [stack EXCEPT ![w] =
                    Append(@, [Frame(w, "direct", op, c, m, NoIncoming) EXCEPT
                                  !.pc = "calling", !.token = active[w],
                                  !.calls = 1, !.api = lastCall])]
    /\ net' = net \cup {Incoming("full", c, m, CurrentContext(w), NoCtx)}
    /\ ninv' = ninv + 1
    /\ last' = NoFrame
    /\ UNCHANGED <<active, nextId>>

\* The original _process_incoming invoked with no wrapper around it.
DirectDispatch(w, inc) ==
    /\ CanEnter(w)
    /\ stack' = [stack EXCEPT ![w] =
                    Append(@, [Frame(w, "handler", "dispatch", inc.ctxt,
                                     ServerMethod(inc), inc) EXCEPT
                                  !.pc = "calling", !.token = active[w],
                                  !.passed = inc, !.calls = 1,
                                  !.api = lastCall])]
    /\ ninv' = ninv + 1
    /\ last' = NoFrame
    /\ UNCHANGED <<active, nextId>>

\* The unwrapped original returns or raises.
DirectReturn(w, o) ==
    /\ stack[w] # <<>>
    /\ Top(w).side \in {"direct", "handler"} /\ Top(w).pc = "calling"
    /\ stack' = [stack EXCEPT ![w] = Pop(w)]
    /\ last' = [Top(w) EXCEPT !.pc = "done", !.inner = o, !.res = o]
    /\ UNCHANGED <<active, net, nextId, ninv>>

\* context.cast(...) / context.call(...): whatever the attribute holds.
Invoke(w, op, c, m) ==
    IF attrs[op] > 0 THEN ClientEnter(w, op, c, m) ELSE DirectCall(w, op, c, m)

\* server._process_incoming(incoming): whatever the attribute holds.
Dispatch(w, inc) ==
    IF attrs.process_incoming > 0 THEN ServerEnter(w, inc)
    ELSE DirectDispatch(w, inc)

-----------------------------------------------------------------------------
(* Installation: _instrument, _uninstrument and the instrumentor around them *)

\* cast, call, call_async, process_incoming: the number of bridge wrappers
\* around the original attribute; helper: whether _inject_trace_context is
\* an attribute of _BaseCallContext.
Pristine ==
    [cast |-> 0, call |-> 0, call_async |-> 0, process_incoming |-> 0,
     helper |-> FALSE]

\* _RPC_CALL_METHODS
RpcCallMethods == {"cast", "call"}

\* "import oslo_messaging.rpc.client" / "import oslo_messaging.rpc.server"
Import(ok) == IF ok THEN "ok" ELSE "ImportError"

\* A handler that lets the failed import through.
CaughtOther(e) == e = "AttributeError"

\* except ImportError: pass
Caught(e) == e = "ImportError"

\* The result of a patching function whose import gave r: nothing is
\* touched when the import fails.
AfterImport(r, a, patched) ==
    IF r = "ok" THEN [attrs |-> patched, res |-> "ok"]
    ELSE [attrs |-> a, res |-> IF Caught(r) THEN "ok" ELSE r]

\* setattr(cls, name, wrapper(getattr(cls, name))): one more wrapper, which
\* refers to what the attribute held.
Wrap(n) == n + 1

\* The attribute left holding its wrapper.
UnwrapSkipped(n) == n

\* unwrap(cls, name): the attribute holds again what its wrapper refers to.
Unwrap(n) == IF n > 0 THEN n - 1 ELSE n

\* if not hasattr(cls, "_inject_trace_context"): setattr(...)
AddHelper(present) == TRUE

\* if hasattr(cls, "_inject_trace_context"): delattr(...)
RemoveHelper(present) == FALSE

InstrumentClient(a, ok) ==
    AfterImport(Import(ok), a,
        [k \in DOMAIN a |->
            IF k \in RpcCallMethods THEN Wrap(a[k])
            ELSE IF k = "helper" THEN AddHelper(a[k]) ELSE a[k]])

InstrumentServer(a, ok) ==
    AfterImport(Import(ok), a, [a EXCEPT !.process_incoming = Wrap(@)])

UninstrumentClient(a, ok) ==
    AfterImport(Import(ok), a,
        [k \in DOMAIN a |->
            IF k \in RpcCallMethods THEN Unwrap(a[k])
            ELSE IF k = "helper" THEN RemoveHelper(a[k]) ELSE a[k]])

UninstrumentServer(a, ok) ==
    AfterImport(Import(ok), a, [a EXCEPT !.process_incoming = Unwrap(@)])

\* _instrument: the client, then the server; a failure of the first ends it.
InstrumentImpl(a, ok) ==
    LET c == InstrumentClient(a, ok)
    IN  IF c.res = "ok" THEN InstrumentServer(c.attrs, ok) ELSE c

\* _uninstrument
UninstrumentImpl(a, ok) ==
    LET c == UninstrumentClient(a, ok)
    IN  IF c.res = "ok" THEN UninstrumentServer(c.attrs, ok) ELSE c

\* The attributes after instrument() of the pristine classes.
Installed == InstrumentImpl(Pristine, TRUE).attrs

\* _instrument run on every instrument() call.
RunsInstrumentAlways(flag) == TRUE

\* The instrumentor runs _instrument only when it is not instrumented ...
RunsInstrument(flag) == ~flag

\* ... and _uninstrument only when it is.
RunsUninstrument(flag) == flag

\* ran: whether the call got past the instrumentor's guard.
NoCall == [op |-> "none", res |-> "ok", ran |-> FALSE]

\* instrument() and uninstrument() are called where application code runs:
\* on an idle worker or from inside a wrapped operation.
ApiCanRun ==
    \A w \in Workers :
        IF stack[w] = <<>> THEN TRUE ELSE Top(w).pc = "calling"

\* instrument()
Instrument ==
    /\ ApiCanRun
    /\ LET r == IF RunsInstrument(instrumented)
                THEN InstrumentImpl(attrs, importable)
                ELSE [attrs |-> attrs, res |-> "ok"]
       IN  /\ attrs' = r.attrs
           /\ instrumented' = IF RunsInstrument(instrumented) /\ r.res = "ok"
                              THEN TRUE ELSE instrumented
           /\ lastCall' = [op |-> "instrument", res |-> r.res,
                        ran |-> RunsInstrument(instrumented)]
    /\ last' = NoFrame
    /\ UNCHANGED <<stack, active, net, nextId, ninv, importable>>

\* uninstrument()
Uninstrument ==
    /\ ApiCanRun
    /\ LET r == IF RunsUninstrument(instrumented)
                THEN UninstrumentImpl(attrs, importable)
                ELSE [attrs |-> attrs, res |-> "ok"]
       IN  /\ attrs' = r.attrs
           /\ instrumented' = IF RunsUninstrument(instrumented) /\ r.res = "ok"
                              THEN FALSE ELSE instrumented
           /\ lastCall' = [op |-> "uninstrument", res |-> r.res,
                        ran |-> RunsUninstrument(instrumented)]
    /\ last' = NoFrame
    /\ UNCHANGED <<stack, active, net, nextId, ninv, importable>>

\* The oslo_messaging modules stop being importable (sys.modules cleared,
\* package gone), whatever has been patched so far; taken between
\* invocations, with no activation running and no message in flight.
Unload ==
    /\ importable
    /\ \A w \in Workers : stack[w] = <<>>
    /\ net = {}
    /\ importable' = FALSE
    /\ last' = NoFrame
    /\ UNCHANGED <<stack, active, net, nextId, ninv, attrs, instrumented, lastCall>>

-----------------------------------------------------------------------------

Init ==
    /\ stack = [w \in Workers |-> <<>>]
    /\ active \in [Workers -> {NoCtx, AppCtx}]
    /\ net = {}
    /\ nextId = 1
    /\ ninv = 0
    /\ last = NoFrame
    /\ attrs = Installed
    /\ instrumented = TRUE
    /\ importable = TRUE
    /\ lastCall = [op |-> "instrument", res |-> "ok", ran |-> TRUE]

\* One step of worker w, its inputs drawn from the given sets.
Step(w, calls, ctxts, foreign) ==
    \/ \E k \in calls, c \in ctxts : ClientEnter(w, k[1], c, k[2])
    \/ ClientInject(w)
    \/ \E o \in Outcomes : ClientReturn(w, o)
    \/ \E inc \in net : ServerReceive(w, inc)
    \/ \E inc \in foreign : ServerForeign(w, inc)
    \/ \E o \in Outcomes : ServerReturn(w, o)

\* Invocations one after another or nested on a single worker, over all
\* the inputs.
Next == Step("w1", ClientCalls, ClientCtxts, ForeignIncoming) /\ UNCHANGED ivars

Spec == Init /\ [][Next]_vars

\* Invocations interleaved on all the workers, over the core inputs.
CoreCalls == {<<"call", "get_status">>}
CoreCtxts == {NoneCtxt, CtxtObj("dict", UserDict), CtxtObj("scalar", EmptyDict)}
CoreForeign ==
    { Incoming("no_ctxt", NoneCtxt, "get_status", NoCtx, NoCtx),
      Incoming("full", CtxtObj("dict", UserDict), "ping", NoCtx, NoCtx),
      Incoming("full", CtxtObj("dict", Dict("alice", RemoteCarrier)), "get_status", NoCtx, NoCtx),
      Incoming("full", CtxtObj("dict", Dict("absent", NonMapping)), "get_status", NoCtx, NoCtx) }

NextConc ==
    /\ \E w \in Workers : Step(w, CoreCalls, CoreCtxts, CoreForeign)
    /\ UNCHANGED ivars

SpecConc == Init /\ [][NextConc]_vars

InstallCtxts == {CtxtObj("dict", UserDict)}
InstallOutcomes == {Ret("OK"), Raise("TimeoutError")}
InstallForeign ==
    { Incoming("no_ctxt", NoneCtxt, "get_status", NoCtx, NoCtx),
      Incoming("full", CtxtObj("dict", Dict("alice", RemoteCarrier)), "get_status", NoCtx, NoCtx) }

\* The classes as imported, before any instrument() call.
InitInstall ==
    /\ stack = [w \in Workers |-> <<>>]
    /\ active = [w \in Workers |-> AppCtx]
    /\ net = {}
    /\ nextId = 1
    /\ ninv = 0
    /\ last = NoFrame
    /\ attrs = Pristine
    /\ instrumented = FALSE
    /\ importable \in BOOLEAN
    /\ lastCall = NoCall

\* instrument(), uninstrument() and invocations through the class
\* attributes on one worker, in any order.
NextInstall ==
    \/ Instrument
    \/ Uninstrument
    \/ Unload
    \/ /\ \/ \E k \in ClientCalls, c \in InstallCtxts : Invoke("w1", k[1], c, k[2])
          \/ ClientInject("w1")
          \/ \E o \in InstallOutcomes : ClientReturn("w1", o)
          \/ \E inc \in net : net' = net \ {inc} /\ Dispatch("w1", inc)
          \/ \E inc \in InstallForeign : Dispatch("w1", inc) /\ UNCHANGED net
          \/ \E o \in InstallOutcomes : ServerReturn("w1", o)
          \/ \E o \in InstallOutcomes : DirectReturn("w1", o)
       /\ UNCHANGED ivars

SpecInstall == InitInstall /\ [][NextInstall]_vars


-----------------------------------------------------------------------------
(* Properties *)

\* The activations running on the workers.
Running == UNION {{stack[w][i] : i \in DOMAIN stack[w]} : w \in Workers}

ClientExited == last.side = "client" /\ last.pc = "done"
ServerExited == last.side = "server" /\ last.pc = "done"

Recorded(span, e) == \E i \in DOMAIN span.events : span.events[i] = e

\* The wrapped operation raised an error deriving from Exception.
InnerFailed(f) == f.inner.kind = "raise" /\ IsException(f.inner.val)

\* C1. Client failure transparency: when the wrapped cast/call operation
\* raises an error E (an Exception), the client wrapper raises exactly E,
\* and the CLIENT span of the invocation, when ended, has status ERROR and
\* E among its recorded exceptions.
C1_ClientFailureTransparent ==
    (ClientExited /\ InnerFailed(last)) =>
        /\ last.res = last.inner
        /\ last.span.kind = "CLIENT"
        /\ last.span.ends = 1
        /\ last.span.status = "ERROR"
        /\ Recorded(last.span, last.inner.val)

C1_Witness ==
    /\ ClientExited
    /\ last.inner = Raise("TimeoutError")
    /\ last.res = Raise("TimeoutError")
    /\ last.span.status = "ERROR"

\* An activation that the bridge instruments: every client invocation, and
\* every server dispatch of a message of the recognized shape.
Bridged(f) == f.side = "client" \/ (f.side = "server" /\ Recognized(f.inc))

Terminal(span) == span.ends = 1 /\ span.status \in {"UNSET", "ERROR"}

\* C2. Span lifecycle on both bridges: every client invocation and every
\* server dispatch of a recognized message starts exactly one span; the
\* span is active while the wrapper runs and, on every exit path, has been
\* ended exactly once, in one terminal state, when the wrapper has exited.
C2_SpanLifecycle ==
    /\ \A f \in Running :
           Bridged(f) => f.started = 1 /\ f.span.kind # "none" /\ f.span.ends = 0
    /\ (last.pc = "done" /\ Bridged(last)) =>
           last.started = 1 /\ last.span.kind # "none" /\ Terminal(last.span)

\* The part of C2 that the code keeps: a span that was started is ended
\* exactly once by the time its wrapper has exited, and never before.
C2_StartedSpanIsFinished ==
    /\ \A f \in Running : f.started = 1 => f.span.ends = 0
    /\ (last.pc = "done" /\ last.started = 1) => Terminal(last.span)
    /\ (last.pc = "done" /\ last.side = "client") => last.started = 1

\* C3. Client success path: when the wrapped operation returns R, the
\* invocation has started exactly one span, of kind CLIENT, carrying
\* method = M and system = "oslo_messaging"; the span is ended with status
\* unset and nothing recorded, and the wrapper returns R.
C3_ClientSuccess ==
    (ClientExited /\ last.inner.kind = "ret") =>
        /\ last.res = last.inner
        /\ last.started = 1
        /\ last.span.kind = "CLIENT"
        /\ last.span.attrs.method = last.method
        /\ last.span.attrs.system = "oslo_messaging"
        /\ last.span.status = "UNSET"
        /\ last.span.events = <<>>
        /\ last.span.ends = 1

C3_Witness ==
    /\ ClientExited
    /\ last.inner = Ret("OK")
    /\ last.res = Ret("OK")
    /\ last.ctxt = NoneCtxt
    /\ last.span.attrs.method = "get_status"
    /\ last.span.ends = 1

All == Running \cup {last}

\* A message the client wrapper of this model has sent.
Sent(inc) == IsValid(inc.sender)

\* C4. Inject/extract round trip: when the server wrapper dispatches a
\* message whose context is the one the client wrapper produced, the parent
\* of the server span is the span context that was current on the client
\* when the carrier was injected, and the server span is in its trace.
C4_RoundTrip ==
    \A f \in All :
        (f.side = "server" /\ Sent(f.inc)) =>
            /\ f.started = 1
            /\ f.span.parent = f.inc.origin
            /\ f.span.tid = f.inc.origin.tid
            /\ IsValid(f.inc.origin)

\* A dispatch after the client call has returned: the parent can only
\* have come through the carrier.
C4_Witness ==
    /\ ServerExited
    /\ Sent(last.inc)
    /\ last.span.parent = last.inc.origin
    /\ last.token # last.inc.origin

C6_ClientPropagationBestEffort ==
    ClientExited =>
        /\ last.calls = 1
        /\ last.inner.kind # "none"
        /\ last.res = last.inner

\* C7. Server extraction never fails a dispatch: for every message of the
\* recognized shape, whatever its context, the server wrapper starts the
\* server span, invokes the handler, and its outcome is the outcome of the
\* handler.
C7_ServerExtractionNeverFails ==
    (ServerExited /\ Recognized(last.inc)) =>
        /\ last.started = 1
        /\ last.calls = 1
        /\ last.inner.kind # "none"
        /\ last.res = last.inner

\* The context of the message converts to a mapping (or to none) that
\* lacks the reserved key.
LacksCarrier(inc) ==
    /\ Recognized(inc)
    /\ ServerNormalize(inc.ctxt).ok
    /\ ServerNormalize(inc.ctxt).d.tc.kind = "absent"

\* C8. Server span without carrier: for every message of the recognized
\* shape whose context lacks the reserved key, dispatch does not fail
\* before the handler and the SERVER span it creates has no parent and
\* opens a new trace, whatever context is current on the worker.
C8_NoCarrierNoParent ==
    \A f \in All :
        (f.side = "server" /\ LacksCarrier(f.inc)) =>
            /\ f.started = 1
            /\ f.span.kind = "SERVER"
            /\ f.span.parent = NoCtx
            /\ f.span.tid = f.span.sid

\* What the code does for such a message: the span is started, and its
\* parent is whatever span was current on the worker at entry.
C8_NoCarrierInheritsCurrent ==
    \A f \in All :
        (f.side = "server" /\ LacksCarrier(f.inc)) =>
            /\ f.started = 1
            /\ f.span.kind = "SERVER"
            /\ f.span.parent = f.token

\* C9. Structural-mismatch pass-through: for a message that does not expose
\* both ctxt and message, the handler is called exactly once with that
\* message, its outcome is the wrapper's outcome, and no span, attribute or
\* extraction operation is performed; the current context is left alone.
C9_MismatchPassThrough ==
    \A f \in All :
        (f.side = "server" /\ ~(HasCtxtAttr(f.inc) /\ HasMessageAttr(f.inc))) =>
            /\ f.calls = 1
            /\ f.passed = f.inc
            /\ f.started = 0
            /\ f.span = NoSpan
            /\ f.ops = 0
            /\ f.pc = "done" => (f.res = f.inner /\ f.inner.kind # "none")
            /\ f.pc = "done" => active[f.worker] = f.token

C9_Witness ==
    /\ ServerExited
    /\ last.inc.shape = "no_message"
    /\ last.res = Raise("TimeoutError")
    /\ last.calls = 1
    /\ last.ops = 0

\* C10. Server failure transparency: when the handler of a recognized
\* message raises an error E (an Exception), the server wrapper has
\* recorded E on the SERVER span, set its status to ERROR, ended it, and
\* raises exactly E.
C10_ServerFailureTransparent ==
    (ServerExited /\ Recognized(last.inc) /\ InnerFailed(last)) =>
        /\ last.res = last.inner
        /\ last.span.kind = "SERVER"
        /\ Recorded(last.span, last.inner.val)
        /\ last.span.status = "ERROR"
        /\ last.span.ends = 1

C10_Witness ==
    /\ ServerExited
    /\ Recognized(last.inc)
    /\ last.inner = Raise("TimeoutError")
    /\ last.res = Raise("TimeoutError")
    /\ last.span.status = "ERROR"
    /\ last.span.ends = 1

\* C14. Context substitution on the client: the wrapped operation gets the
\* caller's method name and a new call context holding every entry of the
\* caller's context plus the reserved key with the injected carrier (also
\* for an empty or absent context); the caller's own context object is
\* left as it was.
C14_ContextSubstitution ==
    /\ \A f \in All :
           (f.side = "client" /\ f.calls = 1) =>
               /\ f.down.user = f.ctxt.d.user
               /\ f.down.tc = Inject(SpanCtxOf(f.span))
               /\ f.down.tc.kind = "map" /\ f.down.tc.tp # <<>>
               /\ f.after = f.ctxt
    /\ \A f \in All : \A m \in net :
           (f.side = "client" /\ m.sender = SpanCtxOf(f.span)) =>
               /\ f.calls = 1
               /\ m.method = f.method
               /\ m.ctxt = CtxtObj("dict", f.down)

C14_Witness ==
    /\ ClientExited
    /\ last.ctxt = CtxtObj("dict", UserDict)
    /\ last.calls = 1
    /\ last.down.user = "alice"
    /\ last.down.tc.kind = "map"
    /\ last.after = CtxtObj("dict", UserDict)
    /\ \E m \in net : m.sender = SpanCtxOf(last.span) /\ m.method = last.method

C14_WitnessAbsent ==
    /\ ClientExited
    /\ last.ctxt = NoneCtxt
    /\ last.calls = 1
    /\ last.down.tc.kind = "map"

\* C15. Server handler transparency: for every inbound message of the
\* recognized shape the handler is invoked exactly once with the incoming
\* message as it arrived, reserved key included; when the handler returns,
\* the wrapper returns its result and the SERVER span is ended with status
\* unset.
C15_ServerHandlerTransparent ==
    (ServerExited /\ Recognized(last.inc)) =>
        /\ last.calls = 1
        /\ last.passed = last.inc
        /\ last.inner.kind = "ret" =>
               /\ last.res = last.inner
               /\ last.span.kind = "SERVER"
               /\ last.span.status = "UNSET"
               /\ last.span.ends = 1

\* The part of C15 that holds: a dispatch that got past normalization and
\* extraction invokes the handler once with the unmodified message and is
\* transparent to its result.
C15_ReachedHandlerTransparent ==
    \A f \in All :
        (f.side = "server" /\ Recognized(f.inc) /\ f.started = 1) =>
            /\ f.calls = 1
            /\ f.passed = f.inc
            /\ (f.pc = "done" /\ f.inner.kind = "ret") =>
                   /\ f.res = f.inner
                   /\ f.span.status = "UNSET"
                   /\ f.span.ends = 1

\* The wrapped operation or handler of an instrumented activation ended by
\* a timeout or a cancellation.
CancelledOrTimedOut(f) ==
    /\ Bridged(f) /\ f.pc = "done" /\ f.calls = 1
    /\ f.inner.kind = "raise" /\ f.inner.val \in WrappedErrors

\* C17. Cancellation and timeouts: whenever the wrapped operation or the
\* handler terminates by cancellation or timeout, failure kinds outside the
\* ordinary exceptions included, the wrapper has recorded the failure on
\* the span, set status ERROR, ended the span and re-raises that failure;
\* such a span never ends with status unset, and the wrapper raises no
\* timeout or cancellation of its own.
C17_CancellationRecorded ==
    /\ CancelledOrTimedOut(last) =>
           /\ last.res = last.inner
           /\ Recorded(last.span, last.inner.val)
           /\ last.span.status = "ERROR"
           /\ last.span.ends = 1
    /\ (Bridged(last) /\ last.pc = "done" /\ last.res.kind = "raise"
            /\ last.res.val \in WrappedErrors) => last.res = last.inner

\* The part of C17 that holds: the failure is re-raised unchanged and the
\* span is ended once whatever the kind of the failure, the wrapper raises
\* no timeout of its own, and a failure deriving from Exception is recorded
\* with status ERROR.
C17_ReRaisedAndEnded ==
    /\ CancelledOrTimedOut(last) =>
           /\ last.res = last.inner
           /\ last.span.ends = 1
           /\ IsException(last.inner.val) =>
                  /\ Recorded(last.span, last.inner.val)
                  /\ last.span.status = "ERROR"
    /\ (Bridged(last) /\ last.pc = "done" /\ last.res.kind = "raise"
            /\ last.res.val \in WrappedErrors) => last.res = last.inner

\* A cancelled activation whose span ended with status unset.
C17_CancelledUnset ==
    /\ CancelledOrTimedOut(last)
    /\ last.inner = Raise("CancelledError")
    /\ last.span.ends = 1
    /\ last.span.status = "UNSET"
    /\ last.span.events = <<>>

\* The context that is current on a worker while activation f runs its
\* wrapped operation.
ActiveUnder(f) == IF f.started = 1 THEN SpanCtxOf(f.span) ELSE f.token

\* C19. Ambient context frame: when a wrapper exits, by return or by a
\* propagated failure, the context current on its worker is the one that
\* was current at entry; the wrapper's span is current only while the
\* wrapped operation runs, so the current context of a worker is always the
\* application's own or the unfinished span of its innermost running
\* activation, never a finished span, through nested and sequential
\* invocations.
C19_AmbientContextFrame ==
    /\ (last.pc = "done" /\ last.side # "none") =>
           active[last.worker] = last.token
    /\ \A w \in Workers :
           IF stack[w] = <<>>
           THEN active[w] \in {NoCtx, AppCtx}
           ELSE /\ active[w] = ActiveUnder(Top(w))
                /\ stack[w][1].token \in {NoCtx, AppCtx}
                /\ \A i \in DOMAIN stack[w] :
                       /\ stack[w][i].span.ends = 0
                       /\ i > 1 => stack[w][i].token = ActiveUnder(stack[w][i - 1])

\* A nested invocation has exited by a failure and the span of the
\* activation that encloses it is current again.
C19_Witness ==
    /\ last.pc = "done" /\ last.started = 1 /\ last.span.ends = 1
    /\ last.res.kind = "raise"
    /\ stack[last.worker] # <<>>
    /\ active[last.worker] = SpanCtxOf(Top(last.worker).span)
    /\ last.token = active[last.worker]
    /\ IsValid(last.token)

\* A sequential invocation has returned to the application's own context.
C19_WitnessSequential ==
    /\ last.pc = "done" /\ last.started = 1 /\ last.res.kind = "ret"
    /\ stack[last.worker] = <<>>
    /\ ninv = 2
    /\ active[last.worker] = AppCtx

\* An activation of an original attribute, no wrapper around it.
Unwrapped(f) == f.side \in {"direct", "handler"}

\* An invocation behaves as it does without the bridge: the original ran
\* once on what the caller gave, its outcome is the caller's, and no span
\* was created.
AsOriginal(f) ==
    /\ Unwrapped(f)
    /\ f.layers = 0 /\ f.started = 0 /\ f.span = NoSpan
    /\ f.calls = 1
    /\ f.side = "handler" => f.passed = f.inc
    /\ f.pc = "done" => f.res = f.inner

\* C11. Instrument/uninstrument round trip: once uninstrument() has
\* followed instrument(), cast, call and _process_incoming are the
\* originals again and _inject_trace_context is gone from the call-context
\* class, and every invocation or dispatch made from then on runs the
\* original alone: same outcome, no span.
C11_RoundTrip ==
    importable =>
        /\ lastCall.op = "uninstrument" =>
               /\ lastCall.res = "ok"
               /\ attrs = Pristine
        /\ \A f \in All : f.api.op = "uninstrument" => AsOriginal(f)

\* A direct invocation made after an instrument()/uninstrument() round
\* trip, a bridged one having run in between.
C11_Witness ==
    /\ importable /\ lastCall.op = "uninstrument" /\ attrs = Pristine
    /\ nextId = 2
    /\ last.side = "direct" /\ last.pc = "done" /\ last.api.op = "uninstrument"
    /\ last.res = Ret("OK") /\ last.span = NoSpan

\* The bridge is in force: one wrapper around each of cast, call and
\* _process_incoming, and the helper on the call-context class.
Active(a) ==
    /\ a.cast = 1 /\ a.call = 1 /\ a.process_incoming = 1
    /\ a.helper

Inactive(a) ==
    /\ a.cast = 0 /\ a.call = 0 /\ a.process_incoming = 0
    /\ ~a.helper

\* C12. Idempotent enable/disable: over any sequence of instrument() and
\* uninstrument() calls no call fails, no attribute is ever wrapped more
\* than once, so that an invocation made after a repeated instrument()
\* goes through one wrapper and starts one span, a repeated uninstrument()
\* changes nothing, and the bridge is in force exactly when the latest
\* call was instrument().
C12_Idempotent ==
    importable =>
        /\ lastCall.res = "ok"
        /\ Active(attrs) \/ Inactive(attrs)
        /\ Active(attrs) <=> lastCall.op = "instrument"
        /\ \A f \in All :
               /\ f.api.op = "instrument" =>
                      /\ f.layers = 1
                      /\ f.side \in {"client", "server"}
                      /\ f.started <= 1
                      /\ f.side = "client" => f.started = 1
               /\ f.api.op \in {"uninstrument"} => Unwrapped(f)

\* An invocation made after instrument() was called on the instrumented
\* bridge has gone through one wrapper and produced one span.
C12_Witness ==
    /\ importable
    /\ ClientExited
    /\ last.api.op = "instrument" /\ ~last.api.ran
    /\ last.layers = 1 /\ last.started = 1 /\ last.span.ends = 1

\* uninstrument() called on the bridge that is not instrumented.
C12_WitnessDisable ==
    /\ importable
    /\ lastCall.op = "uninstrument" /\ ~lastCall.ran /\ lastCall.res = "ok"
    /\ attrs = Pristine

\* C13. Installed methods: after instrument(), each of call, cast and
\* call_async of the call-context class is replaced by a wrapper that
\* refers to the original, _inject_trace_context is present on the class,
\* and _process_incoming of the server class is replaced by a wrapper.
C13_InstalledMethods ==
    (importable /\ lastCall.op = "instrument") =>
        /\ attrs.call = 1
        /\ attrs.cast = 1
        /\ attrs.call_async = 1
        /\ attrs.helper
        /\ attrs.process_incoming = 1

\* The part of C13 that holds: everything but call_async is installed.
C13_InstalledButCallAsync ==
    (importable /\ lastCall.op = "instrument") =>
        /\ attrs.call = 1
        /\ attrs.cast = 1
        /\ attrs.helper
        /\ attrs.process_incoming = 1

\* After instrument(), call_async is the original method.
C13_CallAsyncUnwrapped ==
    /\ importable /\ lastCall.op = "instrument" /\ lastCall.ran
    /\ attrs.call = 1 /\ attrs.cast = 1
    /\ attrs.call_async = 0

\* C16. Transport unavailable: while the oslo_messaging modules cannot be
\* imported, instrument() and uninstrument() complete without raising and
\* neither install nor remove a wrapper or the helper, in either order and
\* whatever was installed before.
C16_UnavailableIsNoOp ==
    [][ ~importable =>
            /\ lastCall'.res = "ok"
            /\ attrs' = attrs ]_vars

\* Both calls have run against the missing modules with wrappers in place.
C16_Witness ==
    /\ ~importable
    /\ lastCall.op = "instrument" /\ lastCall.ran /\ lastCall.res = "ok"
    /\ Active(attrs)

\* Both calls have run against modules that never were importable.
C16_WitnessNever ==
    /\ ~importable
    /\ lastCall.op = "uninstrument" /\ lastCall.ran /\ lastCall.res = "ok"
    /\ attrs = Pristine

\* A client wrapper failed at the lookup of _inject_trace_context.
HelperMissing(f) ==
    /\ f.side = "client" /\ f.pc = "done"
    /\ f.calls = 0
    /\ f.res = Raise("AttributeError")

\* C18. Helper invariant: in every state reached by instrument(),
\* uninstrument(), client invocations and server dispatches, a bridge
\* wrapper on cast or call implies _inject_trace_context on the
\* call-context class, and no invocation through an installed wrapper
\* fails for lack of the helper.
C18_HelperInvariant ==
    /\ (attrs.cast > 0 \/ attrs.call > 0) => attrs.helper
    /\ \A f \in All : ~HelperMissing(f)

\* A cast through the wrapper that instrument() installed has found the
\* helper and reached the original with the carrier injected.
C18_Witness ==
    /\ attrs.cast = 1 /\ attrs.helper
    /\ ClientExited /\ last.op = "cast"
    /\ last.api.op = "instrument" /\ last.api.ran
    /\ last.layers = 1 /\ last.calls = 1
    /\ last.down.tc.kind = "map"

====
